---- MODULE Spec2Model ----
(***************************************************************************)
(* State-machine model of sample_sentinel_data.py: the point sampler       *)
(* sample_sentinel_data(vv, vh, points) and the batch driver that walks    *)
(* the data directory, samples every VV/VH pair and concatenates the       *)
(* per-pair tables.                                                        *)
(*                                                                         *)
(* Numbers.  World coordinates and pixel coordinates are integers; the     *)
(* least-squares coefficients and the fractional pixel positions are       *)
(* exact rationals (numerator over a positive denominator).  numpy's       *)
(* float64 rounding error is not modelled: np.linalg.lstsq is modelled by  *)
(* the exact minimum-norm least-squares solution it approximates.          *)
(***************************************************************************)
EXTENDS Integers, Sequences, FiniteSets, TLC

----------------------------------------------------------------------------
(* Exact arithmetic used by the numeric library calls *)

Abs(n) == IF n < 0 THEN -n ELSE n

RECURSIVE Gcd(_, _)
Gcd(a, b) == IF b = 0 THEN a ELSE Gcd(b, a % b)

\* math.floor(p / q) for a rational p/q, q # 0
FloorDiv(p, q) == IF q > 0 THEN p \div q ELSE (-p) \div (-q)

\* int(np.round(p / q)), q > 0: round to nearest, ties to the even integer
RoundHalfEven(p, q) ==
    LET f == p \div q
        r == p - f * q
    IN  IF 2 * r < q THEN f
        ELSE IF 2 * r > q THEN f + 1
        ELSE IF f % 2 = 0 THEN f ELSE f + 1

RECURSIVE SumSeq(_)
SumSeq(s) == IF s = << >> THEN 0 ELSE Head(s) + SumSeq(Tail(s))

Dot3(u, v) == u[1] * v[1] + u[2] * v[2] + u[3] * v[3]

MatVec(M, v) == << Dot3(M[1], v), Dot3(M[2], v), Dot3(M[3], v) >>

Det3(M) ==
      M[1][1] * (M[2][2] * M[3][3] - M[2][3] * M[3][2])
    - M[1][2] * (M[2][1] * M[3][3] - M[2][3] * M[3][1])
    + M[1][3] * (M[2][1] * M[3][2] - M[2][2] * M[3][1])

\* M with column k replaced by v
ReplaceCol(M, k, v) ==
    [r \in 1..3 |-> [c \in 1..3 |-> IF c = k THEN v[r] ELSE M[r][c]]]

\* a coefficient vector num/den in lowest terms, den > 0
Reduce(num, den) ==
    LET s == IF den < 0 THEN -1 ELSE 1
        g == Gcd(Gcd(Gcd(Abs(num[1]), Abs(num[2])), Abs(num[3])), Abs(den))
    IN  [num |-> << (s * num[1]) \div g, (s * num[2]) \div g, (s * num[3]) \div g >>,
         den |-> (s * den) \div g]

----------------------------------------------------------------------------
(* np.linalg.lstsq(A, b, rcond=None)[0] for an n x 3 matrix A (rows        *)
(* <<x, y, 1>>) and a vector b: the least-squares solution, and when A is  *)
(* rank deficient the one of minimum 2-norm.  With N = A^T A and           *)
(* v = A^T b the solution is pinv(N) v:                                    *)
(*   rank 3: N^-1 v, by Cramer's rule;                                     *)
(*   rank 2: N (e1 I - N)^2 v / e2^2, e1 = trace N, e2 = the sum of the    *)
(*           principal 2 x 2 minors (the product of the two non-zero       *)
(*           eigenvalues);                                                 *)
(*   rank 1: N v / e1^2.                                                   *)

NormalMatrix(A) ==
    [r \in 1..3 |-> [c \in 1..3 |->
        SumSeq([k \in 1..Len(A) |-> A[k][r] * A[k][c]])]]

NormalVector(A, b) ==
    [r \in 1..3 |-> SumSeq([k \in 1..Len(A) |-> A[k][r] * b[k]])]

Trace3(M) == M[1][1] + M[2][2] + M[3][3]

Minors2(M) ==
      (M[1][1] * M[2][2] - M[1][2] * M[2][1])
    + (M[1][1] * M[3][3] - M[1][3] * M[3][1])
    + (M[2][2] * M[3][3] - M[2][3] * M[3][2])

\* e1 * I - M
Shifted(M) ==
    [r \in 1..3 |-> [c \in 1..3 |->
        (IF r = c THEN Trace3(M) ELSE 0) - M[r][c]]]

Lstsq(A, b) ==
    LET N  == NormalMatrix(A)
        v  == NormalVector(A, b)
        d  == Det3(N)
        e1 == Trace3(N)
        e2 == Minors2(N)
    IN  IF d # 0
        THEN Reduce(<< Det3(ReplaceCol(N, 1, v)),
                       Det3(ReplaceCol(N, 2, v)),
                       Det3(ReplaceCol(N, 3, v)) >>, d)
        ELSE IF e2 # 0
        THEN LET w  == Reduce(MatVec(Shifted(N), v), e2)
                 w2 == Reduce(MatVec(Shifted(N), w.num), w.den * e2)
                 x  == MatVec(N, w2.num)
             IN  Reduce(x, w2.den)
        ELSE Reduce(MatVec(N, v), e1 * e1)

----------------------------------------------------------------------------
(* Values, strings and files *)

\* np.nan, and a value read from a grid; None
NaN == << >>
Val(v) == << v >>
None == << >>

\* a str is the sequence of its characters
Sep == "/"

RECURSIVE SplitFrom(_, _, _)
SplitFrom(s, delim, field) ==
    IF s = << >> THEN << field >>
    ELSE IF Head(s) = delim
         THEN << field >> \o SplitFrom(Tail(s), delim, << >>)
         ELSE SplitFrom(Tail(s), delim, Append(field, Head(s)))

\* s.split(delim)
Split(s, delim) == SplitFrom(s, delim, << >>)

\* s.endswith(suffix)
EndsWith(s, suffix) ==
    /\ Len(s) >= Len(suffix)
    /\ SubSeq(s, Len(s) - Len(suffix) + 1, Len(s)) = suffix

\* os.path.join(root, file)
PathJoin(root, file) ==
    IF root # << >> /\ root[Len(root)] = Sep
    THEN root \o file
    ELSE root \o << Sep >> \o file

\* vv_src.read(1): a height x width grid, indexed [row][col] from 0
Grid(width, height, base) ==
    [r \in 0..(height - 1) |-> [c \in 0..(width - 1) |-> base + 10 * r + c]]

\* Affine(a, b, c, d, e, f): x = a*col + b*row + c, y = d*col + e*row + f
Affine(a, b, c, d, e, f) == << a, b, c, d, e, f >>

\* GroundControlPoint(row, col, x, y)
GroundControlPoint(row, col, x, y) == [row |-> row, col |-> col, x |-> x, y |-> y]

\* what rasterio.open(path) gives: size, transform, GCPs, and the file's
\* band 1 (named by the value of its first cell)
Raster(width, height, transform, gcps, base) ==
    [width |-> width, height |-> height, transform |-> transform,
     gcps |-> gcps, band |-> base]

\* src.read(1)
ReadBand(src) == Grid(src.width, src.height, src.band)

----------------------------------------------------------------------------
(* sample_sentinel_data: the coordinate conversion *)

\* the GCP count from which a transformer is fitted
MinFitGcps == 3

\* FitGcps fitting from 2 GCPs on (the threshold off by one)
FitGcpsFromTwo(gcps) ==
    IF Len(gcps) >= 2
    THEN LET A == [k \in 1..Len(gcps) |-> << gcps[k].x, gcps[k].y, 1 >>]
             pixel_col == [k \in 1..Len(gcps) |-> gcps[k].col]
             pixel_row == [k \in 1..Len(gcps) |-> gcps[k].row]
         IN  << Lstsq(A, pixel_col), Lstsq(A, pixel_row) >>
    ELSE None

\* FitGcps with the world coordinates taken as (y, x)
FitGcpsLatLon(gcps) ==
    IF Len(gcps) >= MinFitGcps
    THEN LET A == [k \in 1..Len(gcps) |-> << gcps[k].y, gcps[k].x, 1 >>]
             pixel_col == [k \in 1..Len(gcps) |-> gcps[k].col]
             pixel_row == [k \in 1..Len(gcps) |-> gcps[k].row]
         IN  << Lstsq(A, pixel_col), Lstsq(A, pixel_row) >>
    ELSE None

\* lines 56-75: gcp_transformer, fitted from the VV raster's GCPs, or None
FitGcps(gcps) ==
    IF Len(gcps) >= MinFitGcps
    THEN LET A == [k \in 1..Len(gcps) |-> << gcps[k].x, gcps[k].y, 1 >>]
             pixel_col == [k \in 1..Len(gcps) |-> gcps[k].col]
             pixel_row == [k \in 1..Len(gcps) |-> gcps[k].row]
         IN  << Lstsq(A, pixel_col), Lstsq(A, pixel_row) >>
    ELSE None

\* src.index(lon, lat): the inverse affine transform, floored, returned as
\* (row, col); raises when the transform is not invertible
Index(src, lon, lat) ==
    LET t   == src.transform
        det == t[1] * t[5] - t[2] * t[4]
        cn  == t[5] * (lon - t[3]) - t[2] * (lat - t[6])
        rn  == t[1] * (lat - t[6]) - t[4] * (lon - t[3])
    IN  IF det = 0
        THEN [raised |-> TRUE, ret |-> << >>]
        ELSE [raised |-> FALSE,
              ret |-> << << FloorDiv(rn, det), 1 >>, << FloorDiv(cn, det), 1 >> >>]

\* world_to_pixel(lon, lat, src): the returned pair, each member a rational
\* <<numerator, denominator>>, and the branch that produced it
WorldToPixel(lon, lat, src, transformer) ==
    IF transformer # None
    THEN LET col_coeffs == transformer[1]
             row_coeffs == transformer[2]
         IN  [raised |-> FALSE, via |-> "fit",
              ret |-> << << Dot3(col_coeffs.num, << lon, lat, 1 >>), col_coeffs.den >>,
                         << Dot3(row_coeffs.num, << lon, lat, 1 >>), row_coeffs.den >> >>]
    ELSE [raised |-> Index(src, lon, lat).raised, via |-> "native",
          ret |-> Index(src, lon, lat).ret]

\* one iteration of a sampling loop (lines 97-110, 116-126): the value
\* appended, or the exception that leaves the except handler when the
\* handler's own message reads geom.x of a geometry that has none
SamplePoint(geom, src, transformer, raster_width, raster_height) ==
    IF geom.kind # "Point"
    THEN [escaped |-> TRUE, value |-> NaN, counted |-> FALSE, via |-> "none"]
    ELSE LET w == WorldToPixel(geom.x, geom.y, src, transformer)
         IN  IF w.raised
             THEN [escaped |-> FALSE, value |-> NaN, counted |-> FALSE, via |-> w.via]
             ELSE LET col == w.ret[1]
                      row == w.ret[2]
                      col_int == RoundHalfEven(col[1], col[2])
                      row_int == RoundHalfEven(row[1], row[2])
                  IN  IF /\ 0 <= col_int /\ col_int < raster_width
                         /\ 0 <= row_int /\ row_int < raster_height
                      THEN IF row_int < src.height /\ col_int < src.width
                           THEN [escaped |-> FALSE, value |-> Val(ReadBand(src)[row_int][col_int]),
                                 counted |-> TRUE, via |-> w.via]
                           ELSE [escaped |-> FALSE, value |-> NaN,
                                 counted |-> FALSE, via |-> w.via]
                      ELSE [escaped |-> FALSE, value |-> NaN,
                            counted |-> FALSE, via |-> w.via]

----------------------------------------------------------------------------
(* sample_sentinel_data: the table *)

\* the field of the path that line 134 takes as the date
DateField == 4

\* pd.DataFrame({...}) of lines 131-137: one row per point, index 0..n-1
DataFrame(gdf, date, vv, vh) ==
    [k \in 1..Len(gdf) |->
        [index |-> k - 1, ID |-> k - 1, LTPC |-> gdf[k].LTPC, Date |-> date,
         VV |-> vv[k], VH |-> vh[k]]]

RECURSIVE DropNaVVOnly(_)
\* DropNa looking at the VV column alone
DropNaVVOnly(df) ==
    IF df = << >> THEN << >>
    ELSE IF Head(df).VV = NaN
         THEN DropNaVVOnly(Tail(df))
         ELSE << Head(df) >> \o DropNaVVOnly(Tail(df))

RECURSIVE DropNa(_)
\* df.dropna(): the rows with no missing value, each keeping its index
DropNa(df) ==
    IF df = << >> THEN << >>
    ELSE IF Head(df).VV = NaN \/ Head(df).VH = NaN
         THEN DropNa(Tail(df))
         ELSE << Head(df) >> \o DropNa(Tail(df))

\* df.reset_index(drop=True)
ResetIndex(df) == [k \in 1..Len(df) |-> [df[k] EXCEPT !.index = k - 1]]

\* lines 131-150: the table returned, or the IndexError of split('-')[4]
BuildTable(gdf, sentinel_vv_path, vv, vh) ==
    LET fields == Split(sentinel_vv_path, "-")
    IN  IF Len(fields) <= DateField
        THEN [raised |-> TRUE, df |-> << >>]
        ELSE [raised |-> FALSE,
              df |-> ResetIndex(DropNa(DataFrame(gdf, fields[DateField + 1], vv, vh)))]

----------------------------------------------------------------------------
(* Inputs of the model *)

\* the longest point set
MaxPoints == 2

Identity == Affine(1, 0, 0, 0, 1, 0)

\* 3 x 3, pixel = world, no GCPs
SquareRaster == Raster(3, 3, Identity, << >>, 100)

\* 3 wide, 2 high, two GCPs: too few to fit
WideRaster ==
    Raster(3, 2, Identity,
           << GroundControlPoint(0, 0, 0, 0), GroundControlPoint(1, 2, 2, 1) >>, 200)

\* 2 wide, 3 high, pixels of 2 x 2 world units
CoarseRaster == Raster(2, 3, Affine(2, 0, 0, 0, 2, 0), << >>, 300)

\* three GCPs of the map col = (x + 1) / 2, row = y
GcpRaster ==
    Raster(3, 3, Identity,
           << GroundControlPoint(0, 0, -1, 0), GroundControlPoint(0, 2, 3, 0),
              GroundControlPoint(2, 0, -1, 2) >>, 400)

\* four GCPs that no affine map fits exactly
WarpedRaster ==
    Raster(3, 3, Identity,
           << GroundControlPoint(0, 0, 0, 0), GroundControlPoint(0, 2, 2, 0),
              GroundControlPoint(2, 0, 0, 2), GroundControlPoint(1, 1, 2, 2) >>, 500)

\* a geotransform with zero pixel size: not invertible
DegenerateRaster == Raster(3, 3, Affine(0, 0, 0, 0, 0, 0), << >>, 600)

Rasters ==
    { SquareRaster, WideRaster, CoarseRaster, GcpRaster, WarpedRaster, DegenerateRaster }

Point(x, y) == [kind |-> "Point", x |-> x, y |-> y]

\* a row of the shapefile with no geometry
NoGeometry == [kind |-> "None", x |-> 0, y |-> 0]

\* rows of the reprojected point set: geometry (lon, lat) and LTPC label
PointRows ==
    { [geometry |-> Point(0, 0),  LTPC |-> 1],
      [geometry |-> Point(2, 1),  LTPC |-> 3],
      [geometry |-> Point(1, 2),  LTPC |-> 5],
      [geometry |-> Point(3, 3),  LTPC |-> 7],
      [geometry |-> Point(-1, 1), LTPC |-> 9],
      [geometry |-> NoGeometry,   LTPC |-> 2] }

RECURSIVE SeqsUpTo(_, _)
\* the sequences over S of length at most n
SeqsUpTo(S, n) ==
    IF n = 0 THEN { << >> }
    ELSE LET shorter == SeqsUpTo(S, n - 1)
         IN  shorter \cup { Append(q, e) : q \in shorter, e \in S }

PointSets == SeqsUpTo(PointRows, MaxPoints)

\* file names: hyphen-delimited fields, the fifth the acquisition date
DateA == << "d", "7" >>
DateB == << "d", "8" >>
Suffix001 == << "0", "0", "1", ".", "t", "i", "f", "f" >>
Suffix002 == << "0", "0", "2", ".", "t", "i", "f", "f" >>
Stem(pol, date) == << "s", "1", "-", "i", "w", "-", "g", "-" >> \o pol \o << "-" >> \o date \o << "-" >>

VVFileA == Stem(<< "v", "v" >>, DateA) \o Suffix001
VVFileB == Stem(<< "v", "v" >>, DateB) \o Suffix001
VHFileA == Stem(<< "v", "h" >>, DateA) \o Suffix002
\* a band-1 file whose name has no hyphen
ShortFile == << "b" >> \o Suffix001
OtherFile == << "m", ".", "x", "m", "l" >>

PlainRoot == << "D", Sep, "S", "1" >>
HyphenRoot == << "D", Sep, "S", "-", "1" >>

----------------------------------------------------------------------------
(* The sampler, one call of sample_sentinel_data *)

VARIABLES
    pc,                 \* where the call is
    sentinel_vv_path,   \* argument: path of the VV raster
    vv_src, vh_src,     \* what rasterio.open gives for the two paths
    gdf,                \* the point set, reprojected
    raster_width, raster_height, gcp_transformer,
    i,                  \* points done in the running loop
    vv_values, vh_values, valid_count,
    vv_via, vh_via,     \* history: the world_to_pixel branch of each point
    df                  \* the table returned

\* the fitted transformer against a known map
VARIABLES
    fit_pc,
    known_map,          \* the affine map world -> pixel the GCPs come from
    vv_gcps,            \* the GCPs of the raster
    fitted,             \* gcp_transformer
    query,              \* the (lon, lat) converted
    pixel               \* what world_to_pixel returned for it

\* the batch driver
VARIABLES
    walk_pc,
    points_shapefile,   \* the point set the shapefile holds
    n_dirs,             \* directories os.walk has yielded
    root, files,        \* the directory of the running iteration
    vv_band_path, vh_band_path,
    n_calls,            \* calls of sample_sentinel_data so far
    df_samples,         \* the table of the last call
    all_samples,
    final_df,
    csv                 \* the rows written to output_csv_path

fitVars == << fit_pc, known_map, vv_gcps, fitted, query, pixel >>

driverVars ==
    << walk_pc, points_shapefile, n_dirs, root, files, vv_band_path,
       vh_band_path, n_calls, df_samples, all_samples, final_df, csv >>

samplerVars ==
    << pc, sentinel_vv_path, vv_src, vh_src, gdf, raster_width, raster_height,
       gcp_transformer, i, vv_values, vh_values, valid_count, vv_via, vh_via, df >>

SamplerPaths ==
    { PathJoin(PlainRoot, VVFileA), PathJoin(HyphenRoot, VVFileA),
      PathJoin(PlainRoot, ShortFile) }

SamplerInit ==
    /\ pc = "load"
    /\ sentinel_vv_path \in SamplerPaths
    /\ vv_src \in Rasters
    /\ vh_src \in Rasters
    /\ gdf \in PointSets
    /\ raster_width = 0
    /\ raster_height = 0
    /\ gcp_transformer = None
    /\ i = 0
    /\ vv_values = << >>
    /\ vh_values = << >>
    /\ valid_count = 0
    /\ vv_via = << >>
    /\ vh_via = << >>
    /\ df = << >>

\* the sampler before any call
SamplerIdle ==
    /\ pc = "idle"
    /\ sentinel_vv_path = << >>
    /\ vv_src = SquareRaster
    /\ vh_src = SquareRaster
    /\ gdf = << >>
    /\ raster_width = 0
    /\ raster_height = 0
    /\ gcp_transformer = None
    /\ i = 0
    /\ vv_values = << >>
    /\ vh_values = << >>
    /\ valid_count = 0
    /\ vv_via = << >>
    /\ vh_via = << >>
    /\ df = << >>

\* lines 34-40: read and reproject the points, print the first one
LoadPoints ==
    /\ UNCHANGED << fitVars, driverVars >>
    /\ pc = "load"
    /\ pc' = IF gdf = << >> \/ gdf[1].geometry.kind # "Point"
             THEN "raised_load" ELSE "open"
    /\ UNCHANGED << sentinel_vv_path, vv_src, vh_src, gdf, raster_width, raster_height,
                    gcp_transformer, i, vv_values, vh_values, valid_count,
                    vv_via, vh_via, df >>

\* lines 43-75: metadata of the VV raster, and the fitted transformer
OpenVV ==
    /\ UNCHANGED << fitVars, driverVars >>
    /\ pc = "open"
    /\ raster_width' = vv_src.width
    /\ raster_height' = vv_src.height
    /\ gcp_transformer' = FitGcps(vv_src.gcps)
    /\ pc' = "vv"
    /\ UNCHANGED << sentinel_vv_path, vv_src, vh_src, gdf, i, vv_values, vh_values,
                    valid_count, vv_via, vh_via, df >>

\* lines 96-110: one iteration of the VV loop
SampleVV ==
    /\ UNCHANGED << fitVars, driverVars >>
    /\ pc = "vv"
    /\ \E s \in { SamplePoint(gdf[i + 1].geometry, vv_src, gcp_transformer,
                               raster_width, raster_height) } :
           IF s.escaped
           THEN /\ pc' = "raised_vv"
                /\ UNCHANGED << i, vv_values, valid_count, vv_via >>
           ELSE /\ vv_values' = Append(vv_values, s.value)
                /\ vv_via' = Append(vv_via, s.via)
                /\ valid_count' = IF s.counted THEN valid_count + 1 ELSE valid_count
                /\ IF i + 1 = Len(gdf)
                   THEN pc' = "vh" /\ i' = 0
                   ELSE pc' = "vv" /\ i' = i + 1
    /\ UNCHANGED << sentinel_vv_path, vv_src, vh_src, gdf, raster_width, raster_height,
                    gcp_transformer, vh_values, vh_via, df >>

\* lines 115-126: one iteration of the VH loop
SampleVH ==
    /\ UNCHANGED << fitVars, driverVars >>
    /\ pc = "vh"
    /\ \E s \in { SamplePoint(gdf[i + 1].geometry, vh_src, gcp_transformer,
                               raster_width, raster_height) } :
           IF s.escaped
           THEN /\ pc' = "raised_vh"
                /\ UNCHANGED << i, vh_values, vh_via >>
           ELSE /\ vh_values' = Append(vh_values, s.value)
                /\ vh_via' = Append(vh_via, s.via)
                /\ IF i + 1 = Len(gdf)
                   THEN pc' = "frame" /\ i' = 0
                   ELSE pc' = "vh" /\ i' = i + 1
    /\ UNCHANGED << sentinel_vv_path, vv_src, vh_src, gdf, raster_width, raster_height,
                    gcp_transformer, vv_values, valid_count, vv_via, df >>

\* lines 128-150: build the table, drop the missing rows, return
ReturnTable ==
    /\ UNCHANGED << fitVars, driverVars >>
    /\ pc = "frame"
    /\ \E t \in { BuildTable(gdf, sentinel_vv_path, vv_values, vh_values) } :
           /\ pc' = IF t.raised THEN "raised_frame" ELSE "done"
           /\ df' = t.df
    /\ UNCHANGED << sentinel_vv_path, vv_src, vh_src, gdf, raster_width, raster_height,
                    gcp_transformer, i, vv_values, vh_values, valid_count,
                    vv_via, vh_via >>


----------------------------------------------------------------------------
(* The whole call as a function, as the driver uses it *)

RECURSIVE SampleBand(_, _, _, _, _)
\* a sampling loop over all points: the values appended, or the exception
\* that escaped it
SampleBand(rows, src, transformer, width, height) ==
    IF rows = << >> THEN [escaped |-> FALSE, values |-> << >>]
    ELSE LET s    == SamplePoint(Head(rows).geometry, src, transformer, width, height)
             rest == SampleBand(Tail(rows), src, transformer, width, height)
         IN  IF s.escaped \/ rest.escaped
             THEN [escaped |-> TRUE, values |-> << >>]
             ELSE [escaped |-> FALSE, values |-> << s.value >> \o rest.values]

\* sample_sentinel_data(path of vv, path of vh, points): the table, or raised
SampleSentinelData(vv_path, vv, vh, rows) ==
    IF rows = << >> \/ rows[1].geometry.kind # "Point"
    THEN [raised |-> TRUE, df |-> << >>]
    ELSE LET transformer == FitGcps(vv.gcps)
             vvs == SampleBand(rows, vv, transformer, vv.width, vv.height)
             vhs == SampleBand(rows, vh, transformer, vv.width, vv.height)
         IN  IF vvs.escaped \/ vhs.escaped
             THEN [raised |-> TRUE, df |-> << >>]
             ELSE BuildTable(rows, vv_path, vvs.values, vhs.values)

----------------------------------------------------------------------------
(* The fitted transformer, checked against the map its GCPs were made from *)

\* the most GCPs a raster carries
MaxGcps == 4

\* an affine map world -> pixel with integer coefficients
KnownMaps ==
    { [col |-> << 1, 0, 0 >>,  row |-> << 0, 1, 0 >>],
      [col |-> << 2, -1, 1 >>, row |-> << 1, 1, 0 >>],
      [col |-> << 0, -1, 3 >>, row |-> << 1, 0, -2 >>] }

ApplyMap(m, x, y) == << Dot3(m.col, << x, y, 1 >>), Dot3(m.row, << x, y, 1 >>) >>

\* world positions of GCPs
GcpWorld == { << x, y >> : x \in 0..2, y \in 0..1 }

\* (lon, lat) of the points converted
Queries == { << 0, 0 >>, << 3, -1 >>, << 1, 2 >>, << -2, 5 >> }

\* the GCP at world position w under the map m
GcpOf(m, w) ==
    GroundControlPoint(ApplyMap(m, w[1], w[2])[2], ApplyMap(m, w[1], w[2])[1], w[1], w[2])

FitInit ==
    /\ fit_pc = "open"
    /\ known_map \in KnownMaps
    /\ \E ws \in SeqsUpTo(GcpWorld, MaxGcps) :
          /\ Len(ws) >= MinFitGcps
          /\ vv_gcps = [k \in 1..Len(ws) |-> GcpOf(known_map, ws[k])]
    /\ fitted = None
    /\ query = << 0, 0 >>
    /\ pixel = << >>

FitIdle ==
    /\ fit_pc = "idle"
    /\ known_map = [col |-> << 1, 0, 0 >>, row |-> << 0, 1, 0 >>]
    /\ vv_gcps = << >>
    /\ fitted = None
    /\ query = << 0, 0 >>
    /\ pixel = << >>

\* lines 56-75
FitTransformer ==
    /\ UNCHANGED << samplerVars, driverVars >>
    /\ fit_pc = "open"
    /\ fitted' = FitGcps(vv_gcps)
    /\ fit_pc' = "fitted"
    /\ UNCHANGED << known_map, vv_gcps, query, pixel >>

\* lines 78-83: world_to_pixel of one point
ConvertPoint ==
    /\ UNCHANGED << samplerVars, driverVars >>
    /\ fit_pc = "fitted"
    /\ \E q \in Queries :
          /\ query' = q
          /\ pixel' = WorldToPixel(q[1], q[2], SquareRaster, fitted).ret
    /\ fit_pc' = "converted"
    /\ UNCHANGED << known_map, vv_gcps, fitted >>

FitNext == FitTransformer \/ ConvertPoint

----------------------------------------------------------------------------
(* The batch driver *)

\* the most directories os.walk yields, and the most files in one of them
MaxDirs == 2
MaxFiles == 3

FileNames == { VVFileA, VVFileB, VHFileA, OtherFile }

Roots == { PlainRoot, HyphenRoot }

\* the listings of a directory: no name twice
Listings ==
    { l \in SeqsUpTo(FileNames, MaxFiles) :
        \A j, k \in 1..Len(l) : j # k => l[j] # l[k] }

\* what the band files of a directory hold: << VV raster, VH raster >>
Pairs == { << SquareRaster, SquareRaster >>, << WideRaster, CoarseRaster >> }

\* what the shapefile of the run holds
Shapefiles ==
    { << [geometry |-> Point(0, 0), LTPC |-> 1], [geometry |-> Point(2, 1), LTPC |-> 3] >>,
      << [geometry |-> Point(0, 0), LTPC |-> 1], [geometry |-> NoGeometry, LTPC |-> 2] >> }

RECURSIVE ScanFrom(_, _, _, _)
ScanFrom(dir, listing, vv, vh) ==
    IF listing = << >> THEN [vv |-> vv, vh |-> vh]
    ELSE IF EndsWith(Head(listing), Suffix001)
         THEN ScanFrom(dir, Tail(listing), PathJoin(dir, Head(listing)), vh)
         ELSE IF EndsWith(Head(listing), Suffix002)
              THEN ScanFrom(dir, Tail(listing), vv, PathJoin(dir, Head(listing)))
              ELSE ScanFrom(dir, Tail(listing), vv, vh)

RECURSIVE ScanFirstFrom(_, _, _, _)
ScanFirstFrom(dir, listing, vv, vh) ==
    IF listing = << >> THEN [vv |-> vv, vh |-> vh]
    ELSE IF EndsWith(Head(listing), Suffix001)
         THEN ScanFirstFrom(dir, Tail(listing),
                            IF vv = None THEN PathJoin(dir, Head(listing)) ELSE vv, vh)
         ELSE IF EndsWith(Head(listing), Suffix002)
              THEN ScanFirstFrom(dir, Tail(listing), vv,
                                 IF vh = None THEN PathJoin(dir, Head(listing)) ELSE vh)
              ELSE ScanFirstFrom(dir, Tail(listing), vv, vh)

\* ScanFiles keeping the first matching file of each band, not the last
ScanFilesFirstMatch(dir, listing) == ScanFirstFrom(dir, listing, None, None)

\* lines 158-165: the band paths after the loop over the files
ScanFiles(dir, listing) == ScanFrom(dir, listing, None, None)

RECURSIVE Flatten(_)
Flatten(tables) ==
    IF tables = << >> THEN << >> ELSE Head(tables) \o Flatten(Tail(tables))

\* Concat without ignore_index: every row keeps the index of its table
ConcatKeepIndex(tables) == Flatten(tables)

\* pd.concat(all_samples, ignore_index=True), all_samples not empty
Concat(tables) == ResetIndex(Flatten(tables))

\* line 175: the RVI column, 4 * VH / (VV + VH) as an exact fraction
AddRvi(table) ==
    [k \in 1..Len(table) |->
        [index |-> table[k].index, ID |-> table[k].ID, LTPC |-> table[k].LTPC,
         Date |-> table[k].Date, VV |-> table[k].VV, VH |-> table[k].VH,
         RVI |-> << 4 * table[k].VH[1], table[k].VV[1] + table[k].VH[1] >>]]

\* final_df.to_csv(path, index=False): the columns without the index
ToCsv(table) ==
    [k \in 1..Len(table) |->
        [ID |-> table[k].ID, LTPC |-> table[k].LTPC, Date |-> table[k].Date,
         VV |-> table[k].VV, VH |-> table[k].VH, RVI |-> table[k].RVI]]

DriverInit ==
    /\ walk_pc = "walk"
    /\ points_shapefile \in Shapefiles
    /\ n_dirs = 0
    /\ root = << >>
    /\ files = << >>
    /\ vv_band_path = None
    /\ vh_band_path = None
    /\ n_calls = 0
    /\ df_samples = << >>
    /\ all_samples = << >>
    /\ final_df = << >>
    /\ csv = << >>

DriverIdle ==
    /\ walk_pc = "idle"
    /\ points_shapefile = << >>
    /\ n_dirs = 0
    /\ root = << >>
    /\ files = << >>
    /\ vv_band_path = None
    /\ vh_band_path = None
    /\ n_calls = 0
    /\ df_samples = << >>
    /\ all_samples = << >>
    /\ final_df = << >>
    /\ csv = << >>

\* lines 157-170: one iteration of the walk
WalkDir ==
    /\ UNCHANGED << samplerVars, fitVars >>
    /\ walk_pc = "walk"
    /\ n_dirs < MaxDirs
    /\ \E dir \in Roots, listing \in Listings :
          LET scan == ScanFiles(dir, listing)
          IN  /\ root' = dir
              /\ files' = listing
              /\ n_dirs' = n_dirs + 1
              /\ vv_band_path' = scan.vv
              /\ vh_band_path' = scan.vh
              /\ IF scan.vv # << >> /\ scan.vh # << >>
                 THEN \E held \in Pairs :
                      \E res \in { SampleSentinelData(scan.vv, held[1], held[2],
                                                      points_shapefile) } :
                          /\ n_calls' = n_calls + 1
                          /\ IF res.raised
                             THEN /\ walk_pc' = "raised"
                                  /\ UNCHANGED << df_samples, all_samples >>
                             ELSE /\ walk_pc' = "walk"
                                  /\ df_samples' = res.df
                                  /\ all_samples' = Append(all_samples, res.df)
                 ELSE UNCHANGED << walk_pc, n_calls, df_samples, all_samples >>
    /\ UNCHANGED << points_shapefile, final_df, csv >>

\* lines 173-179: the walk is over; concatenate, add RVI, write
WriteCsv ==
    /\ UNCHANGED << samplerVars, fitVars >>
    /\ walk_pc = "walk"
    /\ IF all_samples = << >>
       THEN /\ walk_pc' = "raised"
            /\ UNCHANGED << final_df, csv >>
       ELSE /\ walk_pc' = "done"
            /\ final_df' = AddRvi(Concat(all_samples))
            /\ csv' = ToCsv(AddRvi(Concat(all_samples)))
    /\ UNCHANGED << points_shapefile, n_dirs, root, files, vv_band_path, vh_band_path,
                    n_calls, df_samples, all_samples >>

DriverNext == WalkDir \/ WriteCsv

----------------------------------------------------------------------------
(* Specifications *)

vars == << samplerVars, fitVars, driverVars >>

Init == SamplerInit /\ FitIdle /\ DriverIdle

Next == LoadPoints \/ OpenVV \/ SampleVV \/ SampleVH \/ ReturnTable

\* one call of sample_sentinel_data
Spec == Init /\ [][Next]_vars

FitSpecInit == SamplerIdle /\ FitInit /\ DriverIdle

\* fitting a transformer to the GCPs of a known map
FitSpec == FitSpecInit /\ [][FitNext]_vars

DriverSpecInit == SamplerIdle /\ FitIdle /\ DriverInit

\* one run of the batch driver
DriverSpec == DriverSpecInit /\ [][DriverNext]_vars

----------------------------------------------------------------------------
(* The step-by-step call and the call as a function agree *)

StepwiseMatchesCall ==
    LET res == SampleSentinelData(sentinel_vv_path, vv_src, vh_src, gdf)
    IN  /\ pc = "done" => ~res.raised /\ df = res.df
        /\ pc \in { "raised_load", "raised_vv", "raised_vh", "raised_frame" } => res.raised

----------------------------------------------------------------------------
(* Properties of one call of the sampler (specification Spec) *)

\* the pixel (row, col) of a point under the raster's own affine transform
HasNativePixel(src, geom) ==
    geom.kind = "Point" /\ ~Index(src, geom.x, geom.y).raised
NativeRow(src, geom) == Index(src, geom.x, geom.y).ret[1][1]
NativeCol(src, geom) == Index(src, geom.x, geom.y).ret[2][1]

InsideRaster(src, row, col) ==
    0 <= col /\ col < src.width /\ 0 <= row /\ row < src.height

\* C1: on the native path (fewer than 3 GCPs, invertible transform), a point
\* whose pixel lies inside the raster gets, for each band, the grid value
\* data[row][col] at its pixel row and pixel column.
C1_InsidePointGetsGridValue ==
    Len(vv_src.gcps) < 3 =>
        /\ \A k \in 1..Len(vv_values) :
              (/\ HasNativePixel(vv_src, gdf[k].geometry)
               /\ InsideRaster(vv_src, NativeRow(vv_src, gdf[k].geometry),
                               NativeCol(vv_src, gdf[k].geometry)))
              => vv_values[k] =
                    Val(ReadBand(vv_src)[NativeRow(vv_src, gdf[k].geometry)]
                                        [NativeCol(vv_src, gdf[k].geometry)])
        /\ \A k \in 1..Len(vh_values) :
              (/\ HasNativePixel(vh_src, gdf[k].geometry)
               /\ InsideRaster(vh_src, NativeRow(vh_src, gdf[k].geometry),
                               NativeCol(vh_src, gdf[k].geometry)))
              => vh_values[k] =
                    Val(ReadBand(vh_src)[NativeRow(vh_src, gdf[k].geometry)]
                                        [NativeCol(vh_src, gdf[k].geometry)])

\* the integer pixel <<row, col>> of a point of a band: the rounded fitted
\* position when a transformer was fitted, else the native lookup
HasPixel(src, geom) ==
    geom.kind = "Point" /\ (gcp_transformer = None => ~Index(src, geom.x, geom.y).raised)
PixelRow(src, geom) ==
    IF gcp_transformer = None THEN NativeRow(src, geom)
    ELSE RoundHalfEven(Dot3(gcp_transformer[2].num, << geom.x, geom.y, 1 >>),
                       gcp_transformer[2].den)
PixelCol(src, geom) ==
    IF gcp_transformer = None THEN NativeCol(src, geom)
    ELSE RoundHalfEven(Dot3(gcp_transformer[1].num, << geom.x, geom.y, 1 >>),
                       gcp_transformer[1].den)

\* C2: a point whose pixel is outside the raster (col < 0, col >= width,
\* row < 0 or row >= height) gets a missing value for that band.
C2_OutsidePointIsMissing ==
    /\ \A k \in 1..Len(vv_values) :
          (/\ HasPixel(vv_src, gdf[k].geometry)
           /\ ~InsideRaster(vv_src, PixelRow(vv_src, gdf[k].geometry),
                            PixelCol(vv_src, gdf[k].geometry)))
          => vv_values[k] = NaN
    /\ \A k \in 1..Len(vh_values) :
          (/\ HasPixel(vh_src, gdf[k].geometry)
           /\ ~InsideRaster(vh_src, PixelRow(vh_src, gdf[k].geometry),
                            PixelCol(vh_src, gdf[k].geometry)))
          => vh_values[k] = NaN

Raised == { "raised_load", "raised_vv", "raised_vh", "raised_frame" }

\* C4: with fewer than 3 GCPs no transformer is fitted, every point of both
\* bands is converted by the native lookup, and the call fails only for a
\* reason that is not the GCP count (a row without geometry, an empty point
\* set, a path without the date field).
C4_FewGcpsUseNativeLookup ==
    Len(vv_src.gcps) < 3 =>
        /\ gcp_transformer = None
        /\ \A k \in 1..Len(vv_via) : vv_via[k] = "native"
        /\ \A k \in 1..Len(vh_via) : vh_via[k] = "native"
        /\ pc \in { "vh", "frame", "done", "raised_vh", "raised_frame" }
              => Len(vv_via) = Len(gdf)
        /\ pc \in { "frame", "done", "raised_frame" } => Len(vh_via) = Len(gdf)
        /\ (/\ gdf # << >>
            /\ \A k \in 1..Len(gdf) : gdf[k].geometry.kind = "Point"
            /\ Len(Split(sentinel_vv_path, "-")) > 4)
           => pc \notin Raised

\* a finished call on a raster with two GCPs, both bands sampled
C4_Witness ==
    /\ pc = "done"
    /\ Len(vv_src.gcps) = 2
    /\ Len(vv_via) = 2
    /\ Len(vh_via) = 2

\* the spec's end-to-end scenario: a 10 x 10 pair with the identity
\* transform, five points on pixels inside and two with negative coordinates
ScenarioRaster == Raster(10, 10, Identity, << >>, 1000)
ScenarioPoints ==
    << [geometry |-> Point(0, 0),  LTPC |-> 1], [geometry |-> Point(-1, 4), LTPC |-> 2],
       [geometry |-> Point(9, 9),  LTPC |-> 3], [geometry |-> Point(3, 7),  LTPC |-> 4],
       [geometry |-> Point(5, -2), LTPC |-> 5], [geometry |-> Point(7, 3),  LTPC |-> 6],
       [geometry |-> Point(4, 4),  LTPC |-> 7] >>
ScenarioTable ==
    SampleSentinelData(PathJoin(PlainRoot, VVFileA), ScenarioRaster, ScenarioRaster,
                       ScenarioPoints)

C6_PointFailureIsContained ==
    /\ pc \notin { "raised_vv", "raised_vh" }
    /\ pc \in { "vh", "frame", "done", "raised_frame" } => Len(vv_values) = Len(gdf)
    /\ pc \in { "frame", "done", "raised_frame" } => Len(vh_values) = Len(gdf)

\* C7: the VH value of every point is what the sampling steps give on the
\* VH raster alone: its own fitted transformer or native lookup, its own
\* width and height.
C7_VHUsesOwnMetadata ==
    \A k \in 1..Len(vh_values) :
        vh_values[k] =
            SamplePoint(gdf[k].geometry, vh_src, FitGcps(vh_src.gcps),
                        vh_src.width, vh_src.height).value

----------------------------------------------------------------------------
(* Properties of the fitted transformer (specification FitSpec) *)

\* the fitted pixel of the converted point is the known map's pixel,
\* as equal fractions
PixelIsKnownMap ==
    /\ pixel[1][1] = pixel[1][2] * ApplyMap(known_map, query[1], query[2])[1]
    /\ pixel[2][1] = pixel[2][2] * ApplyMap(known_map, query[1], query[2])[2]

\* all GCPs lie on one line of the world plane (or in one point)
Collinear(gcps) ==
    \A a, b, c \in 1..Len(gcps) :
        (gcps[b].x - gcps[a].x) * (gcps[c].y - gcps[a].y)
            = (gcps[c].x - gcps[a].x) * (gcps[b].y - gcps[a].y)

\* C3 as stated: with 3 or more GCPs made from one affine map, the fitted
\* transformer maps every (lon, lat) to the pixel the map gives.
C3_FitReproducesKnownMap ==
    fit_pc = "converted" => PixelIsKnownMap

\* C3 amended: the same, for GCPs that do not all lie on one line.
C3_FitReproducesKnownMapOffLine ==
    (fit_pc = "converted" /\ ~Collinear(vv_gcps)) => PixelIsKnownMap

\* four GCPs off one line, and a point outside their hull converted
C3_Witness ==
    /\ fit_pc = "converted"
    /\ Len(vv_gcps) = 4
    /\ ~Collinear(vv_gcps)
    /\ known_map.col = << 2, -1, 1 >>
    /\ query = << -2, 5 >>
    /\ pixel = << << -8, 1 >>, << 3, 1 >> >>

----------------------------------------------------------------------------
(* Properties of the batch driver (specification DriverSpec) *)

\* the position in a listing of its last name with the suffix
LastWith(listing, suffix) ==
    CHOOSE k \in 1..Len(listing) :
        /\ EndsWith(listing[k], suffix)
        /\ \A m \in (k + 1)..Len(listing) : ~EndsWith(listing[m], suffix)

HasWith(listing, suffix) == \E k \in 1..Len(listing) : EndsWith(listing[k], suffix)

\* the running directory's pair was sampled and the call returned
CallReturned ==
    /\ walk_pc \in { "walk", "done" }
    /\ vv_band_path # None
    /\ vh_band_path # None

\* C8: the Date of every record is the fifth hyphen-delimited field of the
\* VV file's base name, whatever the directory joined in front of it.
C8_DateIsFieldOfBaseName ==
    CallReturned =>
        \A j \in 1..Len(df_samples) :
            /\ Len(Split(files[LastWith(files, Suffix001)], "-")) >= 5
            /\ df_samples[j].Date = Split(files[LastWith(files, Suffix001)], "-")[5]

\* rows of the tables before table t
RowsBefore(tables, t) == SumSeq([u \in 1..(t - 1) |-> Len(tables[u])])

\* C9: the combined table has as many rows as the tables together, holds
\* every row of every table in order, and its row indices are 0..N-1, none
\* twice.
C9_ConcatKeepsRowsAndRenumbers ==
    walk_pc = "done" =>
        /\ Len(final_df) = SumSeq([t \in 1..Len(all_samples) |-> Len(all_samples[t])])
        /\ \A j \in 1..Len(final_df) : final_df[j].index = j - 1
        /\ \A j, k \in 1..Len(final_df) :
              final_df[j].index = final_df[k].index => j = k
        /\ \A t \in 1..Len(all_samples) : \A j \in 1..Len(all_samples[t]) :
              LET r == final_df[RowsBefore(all_samples, t) + j]
              IN  /\ r.ID = all_samples[t][j].ID
                  /\ r.LTPC = all_samples[t][j].LTPC
                  /\ r.Date = all_samples[t][j].Date
                  /\ r.VV = all_samples[t][j].VV
                  /\ r.VH = all_samples[t][j].VH

\* two tables, of 2 rows and of 1 row, concatenated
C9_Witness ==
    /\ walk_pc = "done"
    /\ Len(all_samples) = 2
    /\ Len(all_samples[1]) = 2
    /\ Len(all_samples[2]) = 1
    /\ Len(final_df) = 3

\* C10: an iteration of the walk calls the sampler at most once, and it
\* calls it exactly when the directory has a file ending in 001.tiff and
\* one ending in 002.tiff; the arguments are the last such files of that
\* directory, joined to its path; the table returned is appended to
\* all_samples, and nothing else is.
C10_OneCallPerPairedDirectory ==
    [][ n_dirs' = n_dirs + 1 =>
          /\ n_calls' \in { n_calls, n_calls + 1 }
          /\ n_calls' = n_calls + 1
                <=> (HasWith(files', Suffix001) /\ HasWith(files', Suffix002))
          /\ n_calls' = n_calls + 1 =>
                /\ vv_band_path' = PathJoin(root', files'[LastWith(files', Suffix001)])
                /\ vh_band_path' = PathJoin(root', files'[LastWith(files', Suffix002)])
          /\ all_samples' = IF n_calls' = n_calls + 1 /\ walk_pc' # "raised"
                            THEN Append(all_samples, df_samples')
                            ELSE all_samples
      ]_vars

\* a directory with two 001.tiff files and one 002.tiff file, sampled once
\* with the later 001.tiff file
C10_Witness ==
    /\ n_dirs = 1
    /\ n_calls = 1
    /\ files = << VVFileB, VHFileA, VVFileA >>
    /\ vv_band_path = PathJoin(root, VVFileA)
    /\ Len(all_samples) = 1

====
